---- MODULE Spec2Model ----
(***************************************************************************)
(* The local store of the app catalogue (src/src/db.ts): one IndexedDB     *)
(* database "AppStoreDB" with the object store "apps", reached through a   *)
(* lazily opened, cached connection promise (dbPromise).  The model holds  *)
(* the module state of db.ts, the asynchronous store operations as         *)
(* processes that suspend at each await, and the part of the IndexedDB     *)
(* engine the operations rely on: the open-request queue of the database,  *)
(* the transaction queue of the object store, the key generator, the two   *)
(* indexes that are queried, and the versionchange / close events.         *)
(***************************************************************************)
EXTENDS Integers, Sequences, FiniteSets, TLC

\* ------------------------------------------------------------------ bounds
MaxId == 2        \* at most this many keys are drawn from the key generator
MaxOps == 2       \* store operations in flight at the same time
MaxOpens == 2     \* openDB requests issued by this tab
MaxTicks == 1     \* the clock advances at most this far
MaxUpgrades == 1  \* version-change requests of another tab
ClockStart == 9   \* first clock reading (so that readings cross 9 -> 10)

MaxClock == ClockStart + MaxTicks

\* ------------------------------------------------------- program constants
dbVersion == 5
NewerVersion == dbVersion + 1

CATEGORIES == <<"Games", "Tools", "Music", "Images", "Videos", "Other">>
CategorySet == {CATEGORIES[i] : i \in 1..Len(CATEGORIES)}

\* The selectedCategory value of the list view that is no category.
All == "All"

\* The records the upload form submits (without the uploadDate, which the
\* caller adds when it submits).
Uploads ==
  { [name |-> "Calculator", description |-> "adds", category |-> "Tools",
     file |-> <<1, 2>>, fileName |-> "calc.html", fileType |-> "text/html",
     fileSize |-> 2, ownerId |-> "user1", icon |-> <<>>, iconType |-> ""],
    [name |-> "Chess", description |-> "board", category |-> "Games",
     file |-> <<3>>, fileName |-> "chess.html", fileType |-> "text/html",
     fileSize |-> 1, ownerId |-> "user2", icon |-> <<7>>, iconType |-> "image/png"] }

VARIABLES
  dbPromise,      \* db.ts: the cached promise (0 = null, else a promise id)
  promise,        \* promise id -> "unused" | "pending" | "fulfilled" | the error
                  \* it rejected with
  ops,            \* slot -> the store operation running in it
  clock,          \* the last reading of the wall clock
  \* --- the IndexedDB engine
  version,        \* version of the database (0: it does not exist)
  objectStoreNames,
  indexNames,
  records,        \* the records of the object store "apps"
  keyGen,         \* current number of the store's key generator
  conn,           \* promise id -> "none" | "open" | "closed": its connection
  openQueue,      \* open requests of the database, in order (0: the other tab's)
  versionChangeSent, \* the head request has fired its versionchange events
  txQueue,        \* transactions on "apps", in creation order (operation slots)
  events,         \* events queued for this tab: <<"versionchange" | "close", c>>
  upgrades,       \* version-change requests the other tab has made
  \* --- history
  opens,          \* number of openDB requests made
  issued,         \* the identifiers returned by successful adds, in order
  deleted,        \* the identifiers whose deleteApp succeeded
  invalidatedAt,  \* the number of opens made when a blocking or terminated
                  \* callback first ran (-1: none has run)
  last,           \* the store operation that settled last
  \* --- the components
  ui,             \* AppList: its React state, its committed render, its timers
                  \* and the calls it awaits
  form            \* AppUpload: the state of the upload form

vars == <<dbPromise, promise, ops, clock, version, objectStoreNames, indexNames,
          records, keyGen, conn, openQueue, versionChangeSent, txQueue, events,
          upgrades, opens, issued, deleted, invalidatedAt, last, ui, form>>

Slots == 1..MaxOps
Promises == 1..MaxOpens

\* ------------------------------------------------------------ pure helpers

\* Mutant: the fields are not padded to their width.
ToISOStringUnpadded(t) == IF t < 10 THEN <<t>> ELSE <<t \div 10, t % 10>>

\* Date.prototype.toISOString: every field is zero-padded to a fixed width,
\* here the two decimal digits of the reading.
ToISOString(t) == <<t \div 10, t % 10>>

\* Comparison of two string keys as IndexedDB compares them: code unit by
\* code unit, a proper prefix first.
RECURSIVE StrLess(_, _)
StrLess(a, b) ==
  IF a = <<>> THEN b # <<>>
  ELSE IF b = <<>> THEN FALSE
  ELSE IF Head(a) # Head(b) THEN Head(a) < Head(b)
  ELSE StrLess(Tail(a), Tail(b))

StrLE(a, b) == a = b \/ StrLess(a, b)

Range(s) == {s[i] : i \in 1..Len(s)}

Min(a, b) == IF a < b THEN a ELSE b

\* The record r with the field f set to v (added when r has no such field).
WithField(r, f, v) ==
  [g \in DOMAIN r \cup {f} |-> IF g = f THEN v ELSE r[g]]

\* ------------------------------------------------------ the engine: schema

\* The upgrade callback of openDB: the store "apps" keyed by the generated
\* "id", with its three indexes; the category index added to an older store.
Upgrade(stores, indexes, oldVersion) ==
  LET created  == "apps" \notin stores
      stores1  == stores \cup {"apps"}
      indexes1 == IF created THEN {"uploadDate", "ownerId", "category"} ELSE indexes
      indexes2 == IF oldVersion < dbVersion /\ "apps" \in stores1
                     /\ "category" \notin indexes1
                  THEN indexes1 \cup {"category"} ELSE indexes1
  IN  [stores |-> stores1, indexes |-> indexes2]

\* ----------------------------------------------------- the engine: requests

\* Mutant: the key is one more than the largest key stored.
NextKeyAfterLargest(recs, gen) ==
  IF recs = {} THEN 1
  ELSE 1 + (CHOOSE k \in {r.id : r \in recs} : \A r \in recs : r.id <= k)

\* The key the generator of "apps" (autoIncrement) gives the next record.
NextKey(recs, gen) == gen

\* An index entry is ordered by its key, then by the primary key of its record.
UploadDateOrder(a, b) ==
  \/ StrLess(a.uploadDate, b.uploadDate)
  \/ a.uploadDate = b.uploadDate /\ a.id < b.id

PrimaryKeyOrder(a, b) == a.id < b.id

\* The entries of an index as a sequence in index order: the i-th is the one
\* with i - 1 entries before it.
InUploadDateOrder(S) ==
  [i \in 1..Cardinality(S) |->
     CHOOSE x \in S : Cardinality({y \in S : UploadDateOrder(y, x)}) = i - 1]

InPrimaryKeyOrder(S) ==
  [i \in 1..Cardinality(S) |->
     CHOOSE x \in S : Cardinality({y \in S : PrimaryKeyOrder(y, x)}) = i - 1]

\* Mutant: getFromIndex instead of getAllFromIndex, the first entry only.
GetFirstApp(recs) ==
  IF recs = {} THEN <<>>
  ELSE <<CHOOSE x \in recs : \A y \in recs \ {x} : UploadDateOrder(x, y)>>

\* db.getAllFromIndex('apps', 'uploadDate'): every entry of the index.
GetAllApps(recs) == InUploadDateOrder(recs)

\* Mutant: the query goes to the ownerId index.
GetAppsByOwnerIndex(recs, category) ==
  InPrimaryKeyOrder({r \in recs : r.ownerId = category})

\* db.getAllFromIndex('apps', 'category', category): the entries whose key
\* equals the query, in index order (equal keys: by primary key).
GetAppsByCategory(recs, category) ==
  InPrimaryKeyOrder({r \in recs : r.category = category})

\* db.add('apps', value): the record stored under the generated key.
Add(recs, gen, value) ==
  LET key == NextKey(recs, gen)
  IN  [records |-> recs \cup {WithField(value, "id", key)},
       keyGen  |-> key + 1,
       key     |-> key]

\* Mutant: the key range up to id instead of the key id.
DeleteUpTo(recs, id) == {r \in recs : r.id > id}

\* db.delete('apps', id): the record with that key is removed, if there is one.
Delete(recs, id) == {r \in recs : r.id # id}

\* ------------------------------------------------------------------ db.ts

\* Mutant: the spread comes last, so the caller's uploadDate wins.
StampedCallerWins(app, now) == WithField(WithField(app, "uploadDate", ToISOString(now)),
                                         "uploadDate", app.uploadDate)

\* The value addApp stores: the caller's record with uploadDate overwritten
\* by the clock reading taken at the call of db.add (id: not yet assigned).
Stamped(app, now) == WithField(app, "uploadDate", ToISOString(now))

\* Mutant: no test of the cached promise, every call opens the database.
InitDBAlwaysOpens(cached, fresh) == fresh

\* initDB: the promise the call caches and returns; fresh is the promise a
\* new openDB request would get.
InitDB(cached, fresh) == IF cached = 0 THEN fresh ELSE cached


\* --------------------------------------------------------------- the state

\* The arguments and results an operation does not have.
NoApp == [name |-> "", description |-> "", category |-> "", file |-> <<>>,
          fileName |-> "", fileType |-> "", fileSize |-> 0, ownerId |-> "",
          icon |-> <<>>, iconType |-> "", uploadDate |-> <<>>]

\* A slot holds: the operation's kind, where it is suspended (pc), the promise
\* getDB returned to it (p), its argument (app, id or category by kind) and,
\* for an add, the record it has passed to db.add (value).
Idle == [kind |-> "idle", pc |-> "idle", p |-> 0, app |-> NoApp, id |-> 0,
         category |-> "", value |-> NoApp]

\* ---------------------------------------------------------- the components

\* AppList: the value of getUserId() (AppList.tsx line 15).
currentUserId == "user1"

\* The React state of AppList (lines 10-14): selectedCategory, apps, loading
\* and error ("" is null).  appsOf records which query filled apps ("none":
\* no query has).
NoView == [selectedCategory |-> All, apps |-> <<>>, appsOf |-> "none",
           loading |-> FALSE, error |-> ""]

\* What a loadApps closure has captured of the render that created it
\* (useCallback, line 38): selectedCategory and loading.
Closure(view) == [selectedCategory |-> view.selectedCategory,
                  loading |-> view.loading]

\* No interval is set.
NoInterval == [live |-> FALSE, selectedCategory |-> "", loading |-> FALSE]

\* A store operation that no component awaits.
NoCaller == [who |-> "none", selectedCategory |-> "", loading |-> FALSE]

\* No delete button was clicked yet.
NoClick == [id |-> 0, ownerId |-> "", accepted |-> FALSE]

\* AppList after its first render: the state, the committed render (what the
\* closures and the page show), the effect that is due, the interval and its
\* closure, the calls awaited (caller), the handleDelete calls that go on to
\* their refresh (resume), the last click on a delete button with the answer
\* to its confirmation, and the number of listing queries issued since the
\* last trigger.  sync: the state was last set in a click handler, so that
\* React renders it and runs its effects before the event loop goes on.
InitList == [state |-> NoView, rendered |-> NoView, effectDue |-> TRUE,
             sync |-> FALSE,
             interval |-> NoInterval,
             caller |-> [o \in Slots |-> NoCaller],
             resume |-> <<>>,
             click |-> NoClick,
             sinceTrigger |-> 0]

\* The files the user can pick; NoFile is null.
NoFile == [file |-> <<>>, fileName |-> "", fileType |-> "", fileSize |-> 0]
Files == {[file |-> <<1, 2>>, fileName |-> "calc.html", fileType |-> "text/html",
           fileSize |-> 2]}

\* AppUpload as it mounts (lines 250-255): the React state of the form, and
\* inputFile, the file the form's file input itself holds.
InitForm == [appName |-> "", description |-> "", category |-> CATEGORIES[1],
             file |-> NoFile, loading |-> FALSE, inputFile |-> NoFile]

\* resetForm (lines 293-303): the state is cleared; the querySelector finds
\* the icon input, which comes first in the document, so the file input
\* keeps its file.
ResetForm(f) == [InitForm EXCEPT !.inputFile = f.inputFile, !.loading = f.loading]

uiVars == <<ui, form>>

Reverse(s) == [i \in 1..Len(s) |-> s[Len(s) + 1 - i]]

Init ==
  /\ ui = InitList
  /\ form = InitForm
  /\ dbPromise = 0
  /\ promise = [p \in Promises |-> "unused"]
  /\ ops = [o \in Slots |-> Idle]
  /\ clock = ClockStart
  /\ version = 0
  /\ objectStoreNames = {}
  /\ indexNames = {}
  /\ records = {}
  /\ keyGen = 1
  /\ conn = [p \in Promises |-> "none"]
  /\ openQueue = <<>>
  /\ versionChangeSent = FALSE
  /\ txQueue = <<>>
  /\ events = {}
  /\ upgrades = 0
  /\ opens = 0
  /\ issued = <<>>
  /\ deleted = {}
  /\ invalidatedAt = -1
  /\ last = [kind |-> "none", app |-> NoApp, id |-> 0, category |-> "",
             res |-> "none", error |-> "", key |-> 0, list |-> <<>>]

Rejected(p) == promise[p] \notin {"unused", "pending", "fulfilled"}
InFlight == {o \in Slots : ops[o].pc # "idle"}
OpenConns == {c \in Promises : conn[c] = "open"}
Now == clock..Min(clock + 1, MaxClock)

engineVars == <<version, objectStoreNames, indexNames, records, keyGen>>
tabVars == <<conn, versionChangeSent, events, upgrades>>

\* The component that awaits the operation in slot o goes on.
\*  - loadApps (AppList.tsx lines 30-37): the records, reversed, become apps,
\*    or the message of the error becomes error; loading is reset.
\*  - handleDelete (lines 85-90): after a delete that succeeded it goes on to
\*    call the loadApps it has captured; after one that failed it only
\*    shows a toast.
\*  - handleSubmit (lines 340-349): after an upload that succeeded the form
\*    is reset; loading is reset.
Continue(o, res, error, list) ==
  LET c == ui.caller[o]
  IN  CASE c.who = "load" ->
             /\ ui' = [ui EXCEPT
                         !.caller[o] = NoCaller,
                         !.sync = FALSE,
                         !.state = IF res = "ok"
                                   THEN [@ EXCEPT !.apps = Reverse(list),
                                                  !.appsOf = c.selectedCategory,
                                                  !.loading = FALSE]
                                   ELSE [@ EXCEPT !.error = error,
                                                  !.loading = FALSE]]
             /\ UNCHANGED form
        [] c.who = "delete" ->
             /\ ui' = [ui EXCEPT
                         !.caller[o] = NoCaller,
                         !.resume = IF res = "ok"
                                    THEN Append(@, [c EXCEPT !.who = "refresh"])
                                    ELSE @]
             /\ UNCHANGED form
        [] c.who = "upload" ->
             /\ ui' = [ui EXCEPT !.caller[o] = NoCaller]
             /\ form' = [(IF res = "ok" THEN ResetForm(form) ELSE form)
                           EXCEPT !.loading = FALSE]
        [] OTHER -> UNCHANGED <<ui, form>>

\* The operation in slot o settles, the slot is free again and the caller
\* that awaits it goes on.
Settle(o, res, error, key, list) ==
  /\ Continue(o, res, error, list)
  /\ ops' = [ops EXCEPT ![o] = Idle]
  /\ last' = [kind |-> ops[o].kind, app |-> ops[o].app, id |-> ops[o].id,
              category |-> ops[o].category, res |-> res, error |-> error,
              key |-> key, list |-> list]

\* Mutant: the catch block returns an empty result instead of rethrowing.
RejectSwallowed(o, error) == Settle(o, "ok", "", 0, <<>>)

\* The promise of the operation in slot o is rejected with the error.
Reject(o, error) == Settle(o, "rejected", error, 0, <<>>)

\* The promise of addApp is fulfilled with the new key, that of a listing
\* with the records, that of deleteApp with nothing.
Fulfil(o, key, list) == Settle(o, "ok", "", key, list)

\* ------------------------------------------- the operations: up to getDB()

\* A store operation is called (lines 68-70, 81-83, 91-93, 101-103): it runs
\* getDB -> initDB up to the await, which opens the database when no promise
\* is cached, caches the promise and suspends on it.
Start(o, kind, app, id, category) ==
  /\ ops[o].pc = "idle"
  /\ \A q \in Slots : q < o => ops[q].pc # "idle"
  /\ LET p == InitDB(dbPromise, opens + 1)
     IN  /\ p <= MaxOpens
         /\ dbPromise' = p
         /\ IF p > opens
            THEN /\ opens' = p
                 /\ promise' = [promise EXCEPT ![p] = "pending"]
                 /\ openQueue' = Append(openQueue, p)
            ELSE UNCHANGED <<opens, promise, openQueue>>
         /\ ops' = [ops EXCEPT ![o] =
                      [kind |-> kind, pc |-> "getDB", p |-> p, app |-> app,
                       id |-> id, category |-> category, value |-> NoApp]]
  /\ UNCHANGED <<engineVars, tabVars, txQueue, issued, deleted, invalidatedAt, last>>

AddsInFlight == {o \in InFlight : ops[o].kind = "add"}

\* The upload form calls addApp with a record whose uploadDate is the form's
\* own clock reading (AppList.tsx lines 326-338).
StartAdd(o) ==
  /\ keyGen + Cardinality(AddsInFlight) <= MaxId
  /\ \E app \in Uploads, now \in Now :
       /\ clock' = now
       /\ Start(o, "add", WithField(app, "uploadDate", ToISOString(now)), 0, "")
  /\ UNCHANGED uiVars

StartGetAll(o) ==
  /\ Start(o, "getAll", NoApp, 0, "")
  /\ UNCHANGED <<clock, uiVars>>

Queries == {"Tools", All}

StartGetByCategory(o) ==
  /\ \E category \in Queries : Start(o, "getByCategory", NoApp, 0, category)
  /\ UNCHANGED <<clock, uiVars>>

\* deleteApp is called with the id of a record some listing has returned.
StartDelete(o) ==
  /\ \E id \in 1..(keyGen - 1) : Start(o, "delete", NoApp, id, "")
  /\ UNCHANGED <<clock, uiVars>>

\* Mutant: the catch rethrows and leaves the cached promise in place.
CacheAfterCatchKept(cached) == cached

\* The cached promise after getDB's catch: dbPromise = null (line 63).
CacheAfterCatch(cached) == 0

\* getDB's catch (lines 61-65): the awaited open was rejected; the cached
\* promise is cleared and the error is rethrown to the caller.
GetDBCatch(o) ==
  /\ ops[o].pc = "getDB"
  /\ Rejected(ops[o].p)
  /\ dbPromise' = CacheAfterCatch(dbPromise)
  /\ Reject(o, promise[ops[o].p])
  /\ UNCHANGED <<promise, clock, engineVars, tabVars, openQueue, txQueue, opens,
                 issued, deleted, invalidatedAt>>

\* The awaited open is fulfilled and the operation calls the database
\* (lines 71-74, 84, 94, 104): a transaction on "apps" is created and the
\* request is placed in it.  addApp reads the clock for the record here.
\* A closed connection throws InvalidStateError instead.
CallEngine(o) ==
  /\ ops[o].pc = "getDB"
  /\ promise[ops[o].p] = "fulfilled"
  /\ IF conn[ops[o].p] # "open"
     THEN /\ Reject(o, "InvalidStateError")
          /\ UNCHANGED <<clock, txQueue>>
     ELSE /\ IF ops[o].kind = "add"
             THEN \E now \in Now :
                    /\ clock' = now
                    /\ ops' = [ops EXCEPT ![o].pc = "request",
                                          ![o].value = Stamped(ops[o].app, now)]
             ELSE /\ ops' = [ops EXCEPT ![o].pc = "request"]
                  /\ UNCHANGED clock
          /\ txQueue' = Append(txQueue, o)
          /\ UNCHANGED <<last, uiVars>>
  /\ UNCHANGED <<dbPromise, promise, engineVars, tabVars, openQueue, opens,
                 issued, deleted, invalidatedAt>>


\* ----------------------------------------------------------------- AppList

storeVars == <<dbPromise, promise, ops, clock, engineVars, tabVars, openQueue,
               txQueue, opens, issued, deleted, invalidatedAt, last>>

\* The category buttons the user clicks (lines 115-137).
Filters == {All, "Tools", "Games"}

\* Mutant: the delete button is shown on every card.
CanDeleteAny(app, user) == TRUE

\* The delete button is on the card of app (line 217).
CanDelete(app, user) == app.ownerId = user

\* What the page shows of a committed render (lines 141-161): the retry
\* button with the error, or else the cards of apps.
ShowsError(view) == ~(view.loading /\ view.apps = <<>>) /\ view.error # ""
ShowsCards(view) ==
  ~(view.loading /\ view.apps = <<>>) /\ view.error = "" /\ view.apps # <<>>

\* loadApps (lines 17-38) up to its await, called through the closure cl; u is
\* AppList as the calling handler leaves it.  With loading set in the closure
\* it returns at once; otherwise it sets loading, clears error and calls
\* getAllApps or getAppsByCategory for the closure's selectedCategory.
LoadApps(cl, u) ==
  /\ IF cl.loading
     THEN /\ ui' = u
          /\ UNCHANGED storeVars
     ELSE \E o \in Slots :
            /\ IF cl.selectedCategory = All
               THEN Start(o, "getAll", NoApp, 0, "")
               ELSE Start(o, "getByCategory", NoApp, 0, cl.selectedCategory)
            /\ UNCHANGED clock
            /\ ui' = [u EXCEPT
                        !.state.loading = TRUE,
                        !.state.error = "",
                        !.caller[o] = [who |-> "load",
                                       selectedCategory |-> cl.selectedCategory,
                                       loading |-> FALSE],
                        !.sinceTrigger = Min(@ + 1, 2)]
  /\ UNCHANGED form

\* The continuation of a handler after its await is a microtask: it runs
\* before any task of the event loop.
NoMicrotask == ui.resume = <<>>

\* A timer, a click and an event of the engine are tasks of the event loop:
\* none of them runs while a handler has still to go on after its await, nor
\* while the render of a state that a click handler has set, or the effect of
\* that render, is outstanding.
TaskMayRun ==
  /\ NoMicrotask
  /\ ~(ui.sync /\ (ui.effectDue \/ ui.rendered # ui.state))

\* React renders the pending state and commits it, once the effects of the
\* previous commit have run.  loadApps is created anew when selectedCategory
\* or loading has changed (line 38), and the effect that depends on it
\* (line 55) is then due.
Commit ==
  /\ NoMicrotask
  /\ ~ui.effectDue
  /\ ui.rendered # ui.state
  /\ ui' = [ui EXCEPT
              !.rendered = ui.state,
              !.effectDue = Closure(ui.state) # Closure(ui.rendered)]
  /\ UNCHANGED <<storeVars, form>>

\* The effect (lines 40-55): the cleanup of its previous run clears the old
\* interval; fetchApps is called once and an interval is set for it, both
\* with the loadApps of the committed render.
Effect ==
  /\ NoMicrotask
  /\ ui.effectDue
  /\ LoadApps(Closure(ui.rendered),
              [ui EXCEPT !.effectDue = FALSE,
                         !.interval = [live |-> TRUE,
                                       selectedCategory |-> ui.rendered.selectedCategory,
                                       loading |-> ui.rendered.loading]])

\* The interval fires (line 49): five seconds after the effect ran, when no
\* render and no effect is pending any more.
Tick ==
  /\ TaskMayRun
  /\ ui.interval.live
  /\ ~ui.effectDue
  /\ ui.rendered = ui.state
  /\ LoadApps([selectedCategory |-> ui.interval.selectedCategory,
               loading |-> ui.interval.loading],
              [ui EXCEPT !.sync = FALSE, !.sinceTrigger = 0])

\* A category button is clicked for another category (lines 116, 128).
ClickCategory(c) ==
  /\ TaskMayRun
  /\ c # ui.state.selectedCategory
  /\ ui' = [ui EXCEPT !.state.selectedCategory = c, !.sync = TRUE,
                       !.sinceTrigger = 0]
  /\ UNCHANGED <<storeVars, form>>

\* The "Try Again" button is clicked (line 149): loadApps of the committed
\* render.
ClickRetry ==
  /\ TaskMayRun
  /\ ShowsError(ui.rendered)
  /\ LoadApps(Closure(ui.rendered),
              [ui EXCEPT !.sync = ~ui.rendered.loading, !.sinceTrigger = 0])

\* The delete button of a card is clicked: handleDelete (lines 76-84) asks for
\* confirmation and, when the user accepts, calls deleteApp with the id of
\* the card's record.
ClickDelete(app, accepted) ==
  /\ TaskMayRun
  /\ ShowsCards(ui.rendered)
  /\ app \in Range(ui.rendered.apps)
  /\ CanDelete(app, currentUserId)
  /\ app.id # 0
  /\ IF accepted
     THEN \E o \in Slots :
            /\ Start(o, "delete", NoApp, app.id, "")
            /\ UNCHANGED clock
            /\ ui' = [ui EXCEPT
                        !.click = [id |-> app.id, ownerId |-> app.ownerId,
                                   accepted |-> TRUE],
                        !.caller[o] = [who |-> "delete",
                                       selectedCategory |-> ui.rendered.selectedCategory,
                                       loading |-> ui.rendered.loading]]
     ELSE /\ ui' = [ui EXCEPT !.click = [id |-> app.id, ownerId |-> app.ownerId,
                                        accepted |-> FALSE]]
          /\ UNCHANGED storeVars
  /\ UNCHANGED form

\* handleDelete goes on after its deleteApp (line 85): it calls the loadApps
\* it captured when the button was clicked.
Refresh ==
  /\ ui.resume # <<>>
  /\ LoadApps([selectedCategory |-> Head(ui.resume).selectedCategory,
               loading |-> Head(ui.resume).loading],
              [ui EXCEPT !.resume = Tail(@), !.sync = FALSE, !.sinceTrigger = 0])

\* --------------------------------------------------------------- AppUpload

\* What the user types into the name and the description field ("": the
\* field is cleared).
Names == {"", "Calculator"}
Descriptions == {"", "adds"}

\* The options of the category select the user picks: the first and the last
\* of CATEGORIES, and one in between.
Options == {CATEGORIES[1], CATEGORIES[2], CATEGORIES[Len(CATEGORIES)]}

\* Mutant: the form is submitted without constraint validation.
RequiredIgnored(value) == TRUE

\* The constraint of a control marked `required` (lines 389, 400, 414, 431):
\* the browser submits the form only when the control has a value.
Required(value) == value # ""

\* onChange of the name field (line 387).
SetAppName(v) ==
  /\ v # form.appName
  /\ form' = [form EXCEPT !.appName = v]
  /\ UNCHANGED <<storeVars, ui>>

\* onChange of the description field (line 411).
SetDescription(v) ==
  /\ v # form.description
  /\ form' = [form EXCEPT !.description = v]
  /\ UNCHANGED <<storeVars, ui>>

\* onChange of the category select, whose options are CATEGORIES (lines
\* 396-405).
SetCategory(c) ==
  /\ c # form.category
  /\ form' = [form EXCEPT !.category = c]
  /\ UNCHANGED <<storeVars, ui>>

\* onChange of the file input (lines 427-432): the user picks a file, or
\* empties the selection.
ChangeFile(f) ==
  /\ f # form.inputFile
  /\ form' = [form EXCEPT !.inputFile = f, !.file = f]
  /\ UNCHANGED <<storeVars, ui>>

\* handleDrop (lines 270-277): a dropped file is put into the state only; the
\* file input does not get it.
DropFile(f) ==
  /\ f # form.file
  /\ form' = [form EXCEPT !.file = f]
  /\ UNCHANGED <<storeVars, ui>>

\* The record handleSubmit passes to addApp (lines 326-338); no icon is
\* picked.
FormRecord(f, now) ==
  [name |-> f.appName, description |-> f.description, category |-> f.category,
   file |-> f.file.file, fileName |-> f.file.fileName,
   fileType |-> f.file.fileType, fileSize |-> f.file.fileSize,
   ownerId |-> currentUserId, icon |-> <<>>, iconType |-> "",
   uploadDate |-> ToISOString(now)]

\* The form is submitted (the button, enabled while not loading, lines
\* 460-466): the browser validates the required controls and fires submit;
\* handleSubmit (lines 305-338) returns when the state holds no file, and
\* otherwise sets loading and calls addApp.
Submit(o) ==
  /\ ~form.loading
  /\ Required(form.appName)
  /\ Required(form.category)
  /\ Required(form.description)
  /\ Required(form.inputFile.fileName)
  /\ IF form.file = NoFile
     THEN /\ o = 1
          /\ UNCHANGED vars
     ELSE /\ keyGen + Cardinality(AddsInFlight) <= MaxId
          /\ \E now \in Now :
               /\ clock' = now
               /\ Start(o, "add", FormRecord(form, now), 0, "")
          /\ form' = [form EXCEPT !.loading = TRUE]
          /\ ui' = [ui EXCEPT !.caller[o] = [NoCaller EXCEPT !.who = "upload"]]

\* ------------------------------------------------ the engine: transactions

\* The transaction at the head of the queue runs and the operation that
\* awaits it settles with the request's result (lines 71, 84, 94, 104).  The
\* transaction of a connection that was closed meanwhile is aborted.
EngineExec(o) ==
  /\ txQueue # <<>>
  /\ o = Head(txQueue)
  /\ txQueue' = Tail(txQueue)
  /\ IF conn[ops[o].p] # "open"
     THEN /\ Reject(o, "AbortError")
          /\ UNCHANGED <<records, keyGen, issued, deleted>>
     ELSE CASE ops[o].kind = "add" ->
                 LET r == Add(records, keyGen, ops[o].value)
                 IN  /\ records' = r.records
                     /\ keyGen' = r.keyGen
                     /\ issued' = Append(issued, r.key)
                     /\ Fulfil(o, r.key, <<>>)
                     /\ UNCHANGED deleted
            [] ops[o].kind = "getAll" ->
                 /\ Fulfil(o, 0, GetAllApps(records))
                 /\ UNCHANGED <<records, keyGen, issued, deleted>>
            [] ops[o].kind = "getByCategory" ->
                 /\ Fulfil(o, 0, GetAppsByCategory(records, ops[o].category))
                 /\ UNCHANGED <<records, keyGen, issued, deleted>>
            [] ops[o].kind = "delete" ->
                 /\ records' = Delete(records, ops[o].id)
                 /\ deleted' = deleted \cup {ops[o].id}
                 /\ Fulfil(o, 0, <<>>)
                 /\ UNCHANGED <<keyGen, issued>>
  /\ UNCHANGED <<dbPromise, promise, clock, version, objectStoreNames, indexNames,
                 tabVars, openQueue, opens, invalidatedAt>>

\* ------------------------------------------------- the engine: connections

\* The open request of this tab at the head of the queue is processed
\* (openDB(dbName, dbVersion, ...), lines 27-53): VersionError when the
\* database is newer than dbVersion; otherwise the upgrade callback runs if
\* the database is older, and the promise is fulfilled with the connection.
EngineOpen(p) ==
  /\ openQueue # <<>>
  /\ p = Head(openQueue)
  /\ p # 0
  /\ openQueue' = Tail(openQueue)
  /\ IF version > dbVersion
     THEN /\ promise' = [promise EXCEPT ![p] = "VersionError"]
          /\ UNCHANGED <<version, objectStoreNames, indexNames, conn>>
     ELSE /\ promise' = [promise EXCEPT ![p] = "fulfilled"]
          /\ conn' = [conn EXCEPT ![p] = "open"]
          /\ IF version < dbVersion
             THEN LET u == Upgrade(objectStoreNames, indexNames, version)
                  IN  /\ objectStoreNames' = u.stores
                      /\ indexNames' = u.indexes
                      /\ version' = dbVersion
             ELSE UNCHANGED <<version, objectStoreNames, indexNames>>
  /\ UNCHANGED <<dbPromise, ops, clock, records, keyGen, versionChangeSent,
                 txQueue, events, upgrades, opens, issued, deleted, invalidatedAt,
                 last>>
  /\ UNCHANGED uiVars

\* Another tab of the origin, running a newer build, opens the database with
\* a higher version.
OtherTabOpen ==
  /\ upgrades < MaxUpgrades
  /\ upgrades' = upgrades + 1
  /\ openQueue' = Append(openQueue, 0)
  /\ UNCHANGED <<dbPromise, promise, ops, clock, engineVars, conn,
                 versionChangeSent, txQueue, events, opens, issued, deleted,
                 invalidatedAt, last>>
  /\ UNCHANGED uiVars

\* The other tab's request reaches the head of the queue and needs an
\* upgrade: a versionchange event is queued for every open connection.
EngineVersionChange ==
  /\ openQueue # <<>>
  /\ Head(openQueue) = 0
  /\ version < NewerVersion
  /\ ~versionChangeSent
  /\ versionChangeSent' = TRUE
  /\ events' = events \cup {<<"versionchange", c>> : c \in OpenConns}
  /\ UNCHANGED <<dbPromise, promise, ops, clock, engineVars, conn, openQueue,
                 txQueue, upgrades, opens, issued, deleted, invalidatedAt, last>>
  /\ UNCHANGED uiVars

\* The other tab's upgrade runs once every other connection is closed.
EngineUpgradeOther ==
  /\ openQueue # <<>>
  /\ Head(openQueue) = 0
  /\ version = NewerVersion \/ (versionChangeSent /\ OpenConns = {})
  /\ version' = NewerVersion
  /\ versionChangeSent' = FALSE
  /\ openQueue' = Tail(openQueue)
  /\ UNCHANGED <<dbPromise, promise, ops, clock, objectStoreNames, indexNames,
                 records, keyGen, conn, txQueue, events, upgrades, opens, issued,
                 deleted, invalidatedAt, last>>
  /\ UNCHANGED uiVars

\* The other tab is closed while its request still waits: the request is
\* dropped.
OtherTabCloses ==
  /\ openQueue # <<>>
  /\ Head(openQueue) = 0
  /\ versionChangeSent
  /\ versionChangeSent' = FALSE
  /\ openQueue' = Tail(openQueue)
  /\ UNCHANGED <<dbPromise, promise, ops, clock, engineVars, conn, txQueue,
                 events, upgrades, opens, issued, deleted, invalidatedAt, last>>
  /\ UNCHANGED uiVars

\* The blocking callback (lines 47-49): a versionchange event is delivered.
Blocking(c) ==
  /\ <<"versionchange", c>> \in events
  /\ events' = events \ {<<"versionchange", c>>}
  /\ dbPromise' = 0
  /\ invalidatedAt' = IF invalidatedAt = -1 THEN opens ELSE invalidatedAt
  /\ UNCHANGED <<promise, ops, clock, engineVars, conn, openQueue,
                 versionChangeSent, txQueue, upgrades, opens, issued, deleted,
                 last>>
  /\ UNCHANGED uiVars

\* The engine closes a connection abnormally and queues its close event.
EngineTerminate(c) ==
  /\ conn[c] = "open"
  /\ conn' = [conn EXCEPT ![c] = "closed"]
  /\ events' = events \cup {<<"close", c>>}
  /\ UNCHANGED <<dbPromise, promise, ops, clock, engineVars, openQueue,
                 versionChangeSent, txQueue, upgrades, opens, issued, deleted,
                 invalidatedAt, last>>
  /\ UNCHANGED uiVars

\* The terminated callback (lines 50-52): a close event is delivered.
Terminated(c) ==
  /\ <<"close", c>> \in events
  /\ events' = events \ {<<"close", c>>}
  /\ dbPromise' = 0
  /\ invalidatedAt' = IF invalidatedAt = -1 THEN opens ELSE invalidatedAt
  /\ UNCHANGED <<promise, ops, clock, engineVars, conn, openQueue,
                 versionChangeSent, txQueue, upgrades, opens, issued, deleted,
                 last>>
  /\ UNCHANGED uiVars

\* A connection nothing refers to any more (the cache was cleared, no
\* operation holds it) may be collected, which closes it; db.ts itself never
\* calls close().
Collect(c) ==
  /\ conn[c] = "open"
  /\ dbPromise # c
  /\ \A o \in InFlight : ops[o].p # c
  /\ conn' = [conn EXCEPT ![c] = "closed"]
  /\ UNCHANGED <<dbPromise, promise, ops, clock, engineVars, openQueue,
                 versionChangeSent, txQueue, events, upgrades, opens, issued,
                 deleted, invalidatedAt, last>>
  /\ UNCHANGED uiVars

\* ------------------------------------------------------ the specification

\* The store in a tab of the newest build: the four operations, any two of
\* them in flight together, over a connection the engine may terminate.
Next ==
  \/ \E o \in Slots : StartAdd(o)
  \/ \E o \in Slots : StartGetAll(o)
  \/ \E o \in Slots : StartGetByCategory(o)
  \/ \E o \in Slots : StartDelete(o)
  \/ \E o \in Slots : CallEngine(o)
  \/ \E o \in Slots : EngineExec(o)
  \/ \E p \in Promises : EngineOpen(p)
  \/ \E c \in Promises : EngineTerminate(c)
  \/ \E c \in Promises : Terminated(c)

Spec == Init /\ [][Next]_vars

\* The writing operations alone: uploads and deletions, any two of them in
\* flight together, over one connection.
WriteNext ==
  \/ \E o \in Slots : StartAdd(o)
  \/ \E o \in Slots : StartDelete(o)
  \/ \E o \in Slots : CallEngine(o)
  \/ \E o \in Slots : EngineExec(o)
  \/ \E p \in Promises : EngineOpen(p)

WriteSpec == Init /\ [][WriteNext]_vars

\* Uploads and the full listing, any two of them in flight together, over
\* one connection.
ListNext ==
  \/ \E o \in Slots : StartAdd(o)
  \/ \E o \in Slots : StartGetAll(o)
  \/ \E o \in Slots : CallEngine(o)
  \/ \E o \in Slots : EngineExec(o)
  \/ \E p \in Promises : EngineOpen(p)

ListSpec == Init /\ [][ListNext]_vars

\* Uploads and the listing by category, any two of them in flight together,
\* over one connection.
CategoryNext ==
  \/ \E o \in Slots : StartAdd(o)
  \/ \E o \in Slots : StartGetByCategory(o)
  \/ \E o \in Slots : CallEngine(o)
  \/ \E o \in Slots : EngineExec(o)
  \/ \E p \in Promises : EngineOpen(p)

CategorySpec == Init /\ [][CategoryNext]_vars

\* Uploads over a connection the engine may terminate, so that later uploads
\* go through a connection that is opened anew.
ReopenNext ==
  \/ \E o \in Slots : StartAdd(o)
  \/ \E o \in Slots : CallEngine(o)
  \/ \E o \in Slots : EngineExec(o)
  \/ \E p \in Promises : EngineOpen(p)
  \/ \E c \in Promises : EngineTerminate(c)
  \/ \E c \in Promises : Terminated(c)

ReopenSpec == Init /\ [][ReopenNext]_vars

\* The cached connection while another tab of a newer build asks for a
\* version change: listing operations, and every event of the connection.
HandleNext ==
  \/ \E o \in Slots : StartGetAll(o)
  \/ \E o \in Slots : GetDBCatch(o)
  \/ \E o \in Slots : CallEngine(o)
  \/ \E o \in Slots : EngineExec(o)
  \/ \E p \in Promises : EngineOpen(p)
  \/ OtherTabOpen
  \/ EngineVersionChange
  \/ EngineUpgradeOther
  \/ OtherTabCloses
  \/ \E c \in Promises : Blocking(c)
  \/ \E c \in Promises : EngineTerminate(c)
  \/ \E c \in Promises : Terminated(c)
  \/ \E c \in Promises : Collect(c)

HandleSpec == Init /\ [][HandleNext]_vars

\* An upload submitted before AppList is mounted in place of the upload form
\* (App.tsx shows one of the two); it may still be in flight when the list
\* mounts.
UploadBeforeList(o) ==
  /\ ui = InitList
  /\ StartAdd(o)

\* A step of the store while AppList is mounted: a task of the event loop.
ListCallEngine(o) == TaskMayRun /\ CallEngine(o)
ListEngineExec(o) == TaskMayRun /\ EngineExec(o)
ListEngineOpen(p) == TaskMayRun /\ EngineOpen(p)

\* AppList with its delete buttons, over a store that the uploads submitted
\* before have filled or are still filling.
AppListDeleteNext ==
  \/ \E o \in Slots : UploadBeforeList(o)
  \/ Commit
  \/ Effect
  \/ \E app \in Range(ui.rendered.apps) : ClickDelete(app, TRUE)
  \/ \E app \in Range(ui.rendered.apps) : ClickDelete(app, FALSE)
  \/ Refresh
  \/ \E o \in Slots : ListCallEngine(o)
  \/ \E o \in Slots : ListEngineExec(o)
  \/ \E p \in Promises : ListEngineOpen(p)

AppListDeleteSpec == Init /\ [][AppListDeleteNext]_vars

\* AppList with its category buttons and its interval, over a store that the
\* uploads submitted before have filled or are still filling.
AppListFilterNext ==
  \/ \E o \in Slots : UploadBeforeList(o)
  \/ Commit
  \/ Effect
  \/ Tick
  \/ \E c \in Filters : ClickCategory(c)
  \/ \E o \in Slots : ListCallEngine(o)
  \/ \E o \in Slots : ListEngineExec(o)
  \/ \E p \in Promises : ListEngineOpen(p)

AppListFilterSpec == Init /\ [][AppListFilterNext]_vars

\* AppList with its interval, its category buttons and its retry button,
\* over a connection the engine may terminate, so that loads fail.
AppListPollNext ==
  \/ Commit
  \/ Effect
  \/ Tick
  \/ \E c \in Filters : ClickCategory(c)
  \/ ClickRetry
  \/ \E o \in Slots : ListCallEngine(o)
  \/ \E o \in Slots : ListEngineExec(o)
  \/ \E p \in Promises : ListEngineOpen(p)
  \/ \E c \in Promises : EngineTerminate(c)
  \/ \E c \in Promises : Terminated(c)

AppListPollSpec == Init /\ [][AppListPollNext]_vars

\* The upload form: the user edits the fields, picks or drops a file and
\* submits, over a connection the engine may terminate, so that uploads fail.
UploadNext ==
  \/ \E v \in Names : SetAppName(v)
  \/ \E v \in Descriptions : SetDescription(v)
  \/ \E c \in Options : SetCategory(c)
  \/ \E f \in Files \cup {NoFile} : ChangeFile(f)
  \/ \E f \in Files : DropFile(f)
  \/ \E o \in Slots : Submit(o)
  \/ \E o \in Slots : CallEngine(o)
  \/ \E o \in Slots : EngineExec(o)
  \/ \E p \in Promises : EngineOpen(p)
  \/ \E c \in Promises : EngineTerminate(c)

UploadSpec == Init /\ [][UploadNext]_vars

\* A caller that makes one call at a time, of any of the four operations,
\* while the database may be upgraded by a newer build (later opens fail) and
\* the connection may be terminated (the engine request fails, and the next
\* call opens the database anew).
CallNext ==
  \/ \E o \in Slots : InFlight = {} /\ StartAdd(o)
  \/ \E o \in Slots : InFlight = {} /\ StartGetAll(o)
  \/ \E o \in Slots : InFlight = {} /\ StartGetByCategory(o)
  \/ \E o \in Slots : InFlight = {} /\ StartDelete(o)
  \/ \E o \in Slots : GetDBCatch(o)
  \/ \E o \in Slots : CallEngine(o)
  \/ \E o \in Slots : EngineExec(o)
  \/ \E p \in Promises : EngineOpen(p)
  \/ OtherTabOpen
  \/ EngineVersionChange
  \/ EngineUpgradeOther
  \/ \E c \in Promises : EngineTerminate(c)
  \/ \E c \in Promises : Terminated(c)

CallSpec == Init /\ [][CallNext]_vars


\* ------------------------------------------------------------- the claims

Fields == {"name", "description", "category", "file", "fileName", "fileType",
           "fileSize", "ownerId", "icon", "iconType"}

\* x equals r in every field but id and uploadDate.
SameFields(x, r) == \A f \in Fields : x[f] = r[f]

Ids(recs) == {r.id : r \in recs}

\* The step in which the engine runs the request of an add and it succeeds.
AddSucceeds == issued' # issued

\* The step in which the engine runs the delete of slot o and it succeeds.
DeleteSucceeds(o) ==
  /\ ops[o].kind = "delete"
  /\ ops[o].pc = "request"
  /\ ops'[o].pc = "idle"
  /\ last'.res = "ok"

\* C1, as stated: after addApp(r) succeeds, the listing holds exactly one
\* record with the fields of r, and every record stored before.
C1_ExactlyOneEqualRecord ==
  [][AddSucceeds =>
       LET list == GetAllApps(records')
       IN  /\ Cardinality({i \in DOMAIN list : SameFields(list[i], last'.app)}) = 1
           /\ records \subseteq Range(list)]_vars

\* C1, amended: after addApp(r) succeeds, the listing holds exactly one record
\* with the returned id, that record has the fields of r, the listing holds
\* one more record with the fields of r than before, and every record stored
\* before the add is still listed unchanged.
C1_AddThenList ==
  [][AddSucceeds =>
       LET list == GetAllApps(records')
           id   == last'.key
           r    == last'.app
       IN  /\ Cardinality({i \in DOMAIN list : list[i].id = id}) = 1
           /\ \A i \in DOMAIN list : list[i].id = id => SameFields(list[i], r)
           /\ Cardinality({i \in DOMAIN list : SameFields(list[i], r)})
                = Cardinality({x \in records : SameFields(x, r)}) + 1
           /\ records \subseteq Range(list)
           /\ Len(list) = Cardinality(records) + 1]_vars

\* An add has just succeeded for a record whose fields a stored record
\* already had: the same upload, made twice.
C1_Witness ==
  /\ last.kind = "add"
  /\ last.res = "ok"
  /\ \E x, y \in records :
       /\ x.id # y.id
       /\ y.id = last.key
       /\ SameFields(x, last.app)
       /\ SameFields(y, last.app)

\* C2: the identifiers returned by successful adds start at 1 and increase
\* strictly in the order they are assigned, so none is returned twice, also
\* after its record was deleted.
C2_IdsIncrease ==
  /\ issued # <<>> => issued[1] = 1
  /\ \A i, j \in DOMAIN issued : i < j => issued[i] < issued[j]

\* An add succeeded after the record of an earlier identifier was deleted.
C2_Witness ==
  /\ last.kind = "add"
  /\ last.res = "ok"
  /\ Len(issued) >= 2
  /\ \E id \in deleted : id < last.key /\ id \notin Ids(records)

\* C3: for every category of the enumeration, getAppsByCategory returns
\* exactly the records of getAllApps with that category, each once; this
\* holds of the value a getAppsByCategory call has returned, too.
C3_CategoryIsFilterOfAll ==
  LET all == Range(GetAllApps(records))
  IN  /\ \A c \in CategorySet :
           LET byCat == GetAppsByCategory(records, c)
           IN  /\ Range(byCat) = {r \in all : r.category = c}
               /\ Len(byCat) = Cardinality(Range(byCat))
      /\ (last.kind = "getByCategory" /\ last.res = "ok"
            /\ last.category \in CategorySet)
           => Range(last.list) = {r \in all : r.category = last.category}

\* A getAppsByCategory call has returned some records while the store holds a
\* record of another category.
C3_Witness ==
  /\ last.kind = "getByCategory"
  /\ last.res = "ok"
  /\ last.list # <<>>
  /\ \E r \in records : r.category # last.category

\* C4: once deleteApp(id) has succeeded no listing holds a record with that
\* id; the delete removes that record and no other, and for an id that is not
\* stored it succeeds and leaves the store as it was.
C4_DeleteRemovesOnlyThat ==
  /\ [](\A id \in deleted :
          \A i \in DOMAIN GetAllApps(records) : GetAllApps(records)[i].id # id)
  /\ [][\A o \in Slots :
          /\ DeleteSucceeds(o)
               => /\ records' = {r \in records : r.id # ops[o].id}
                  /\ ops[o].id \notin Ids(records) => records' = records
          /\ (ops[o].kind = "delete" /\ ops[o].pc = "request"
                /\ ops'[o].pc = "idle" /\ conn[ops[o].p] = "open")
               => last'.res = "ok"]_vars

\* A delete has succeeded, its record is gone and another record is stored.
C4_Witness ==
  /\ last.kind = "delete"
  /\ last.res = "ok"
  /\ last.id \in deleted
  /\ records # {}
  /\ last.id \notin Ids(records)

\* C5: the uploadDate of the record addApp stores is the clock reading taken
\* inside addApp when it calls the database, whatever the caller supplied.
C5_StoreStampsDate ==
  /\ [][\A o \in Slots :
          (ops[o].kind = "add" /\ ops[o].pc = "getDB" /\ ops'[o].pc = "request")
            => ops'[o].value.uploadDate = ToISOString(clock')]_vars
  /\ [][AddSucceeds =>
          \E o \in Slots, r \in records' :
            /\ ops[o].pc = "request"
            /\ ops'[o].pc = "idle"
            /\ r.id = last'.key
            /\ r.uploadDate = ops[o].value.uploadDate]_vars

\* A record is stored with an uploadDate other than the one its caller
\* supplied.
C5_Witness ==
  /\ last.kind = "add"
  /\ last.res = "ok"
  /\ \E r \in records : r.id = last.key /\ r.uploadDate # last.app.uploadDate

\* The sequence s lists every stored record once, in ascending uploadDate
\* order, which is the ascending order of the identifiers.
ListedInInsertionOrder(s) ==
  /\ Range(s) = records
  /\ Len(s) = Cardinality(records)
  /\ \A i, j \in DOMAIN s :
       i < j => /\ StrLE(s[i].uploadDate, s[j].uploadDate)
                /\ s[i].id < s[j].id

C8_UnknownCategoryRejected ==
  (last.kind = "getByCategory" /\ last.category \notin CategorySet)
    => last.res = "rejected"

\* C9: while no blocking or terminated callback has run and no open has
\* failed, all operations together, once one has been called, have made
\* exactly one openDB request, and each of them holds the promise of that
\* request.
C9_OneOpen ==
  (invalidatedAt = -1 /\ \A p \in Promises : ~Rejected(p))
    => /\ opens <= 1
       /\ (InFlight # {} \/ last.kind # "none") => opens = 1
       /\ dbPromise = opens
       /\ \A o \in InFlight : ops[o].p = 1

\* Two operations are in flight on the first open request, which is still
\* pending.
C9_Witness ==
  /\ Cardinality(InFlight) >= 2
  /\ opens = 1
  /\ promise[1] = "pending"
  /\ invalidatedAt = -1

\* C10, as stated: an open request made after the cached handle was
\* invalidated is not rejected, so the operations that wait for it go on to
\* the new handle.
C10_ReopenSucceeds ==
  \A p \in Promises : (invalidatedAt >= 0 /\ p > invalidatedAt) => ~Rejected(p)

\* The open that the operation in slot o awaits has failed.
OpenFailed(o) == ops[o].pc = "getDB" /\ Rejected(ops[o].p)

\* The engine fails the operation in slot o: its connection is closed when it
\* calls the database, or when its transaction is due to run.
EngineFailed(o) ==
  /\ \/ ops[o].pc = "getDB" /\ promise[ops[o].p] = "fulfilled"
     \/ ops[o].pc = "request" /\ o = Head(txQueue)
  /\ conn[ops[o].p] # "open"

FailureOf(o) ==
  IF OpenFailed(o) THEN promise[ops[o].p]
  ELSE IF ops[o].pc = "getDB" THEN "InvalidStateError" ELSE "AbortError"

\* C11: when the open or the engine request of an operation fails, the
\* operation's promise is rejected with that error and carries no value, the
\* stored records and the key generator are as before, and every call places
\* at most one request with the engine.
C11_FailureRejects ==
  /\ [](\A o \in Slots :
          /\ Cardinality({i \in DOMAIN txQueue : txQueue[i] = o}) <= 1
          /\ (o \in Range(txQueue)) <=> (ops[o].pc = "request"))
  /\ [][\A o \in Slots :
          /\ ((OpenFailed(o) \/ EngineFailed(o)) /\ ops'[o] # ops[o])
               => /\ ops'[o] = Idle
                  /\ last'.kind = ops[o].kind
                  /\ last'.res = "rejected"
                  /\ last'.error = FailureOf(o)
                  /\ last'.key = 0
                  /\ last'.list = <<>>
                  /\ records' = records
                  /\ keyGen' = keyGen
          /\ (ops[o].pc = "request" /\ ops'[o] # ops[o]) => ops'[o] = Idle]_vars

\* An addApp call was rejected because the open failed, while records are
\* stored.
C11_Witness ==
  /\ last.kind = "add"
  /\ last.res = "rejected"
  /\ last.error = "VersionError"
  /\ records # {}

\* The operation in slot o is called in this step.
Called(o) == ops[o].pc = "idle" /\ ops'[o].pc = "getDB"

\* C12: in every run of AppList, deleteApp(id) is called only in the step in
\* which the user accepts the confirmation for the card of id, and that card
\* - like the record stored under id, if there still is one - belongs to the
\* current user; a confirmation that is declined leaves the store, the calls
\* in flight and the view (the state and the committed render) unchanged.
C12_DeleteOwnAfterConfirm ==
  [][/\ \A o \in Slots :
          (Called(o) /\ ops'[o].kind = "delete")
            => /\ \E app \in Range(ui.rendered.apps) :
                    /\ app.id = ops'[o].id
                    /\ app.ownerId = currentUserId
                    /\ ui'.click = [id |-> app.id, ownerId |-> app.ownerId,
                                    accepted |-> TRUE]
               /\ \A r \in records : r.id = ops'[o].id => r.ownerId = currentUserId
     /\ (ui'.click # ui.click /\ ~ui'.click.accepted)
          => /\ UNCHANGED storeVars
             /\ ui'.state = ui.state
             /\ ui'.rendered = ui.rendered
             /\ ui'.caller = ui.caller
             /\ ui'.resume = ui.resume]_vars

\* A record of the current user was deleted through its card after the user
\* accepted the confirmation, while the record of another user is still
\* stored.
C12_Witness ==
  /\ ui.click.accepted
  /\ ui.click.id \in deleted
  /\ last.kind = "delete" /\ last.res = "ok" /\ last.id = ui.click.id
  /\ \E r \in records : r.ownerId # currentUserId

\* C13: while AppList is mounted, listing queries are started by the initial
\* mount, the interval tick, a change of the category filter, the retry
\* button and the refresh after a delete; between two consecutive such
\* triggers at most one listing query is issued, also after a load that
\* failed.
C13_OneQueryPerTrigger == ui.sinceTrigger <= 1

\* What C14 requires of a record.
WellFormed(r) ==
  /\ r.name # ""
  /\ r.description # ""
  /\ r.file # <<>>
  /\ r.category \in CategorySet

\* C14: every record that the upload form has passed to addApp, and so every
\* record in the store, has a non-empty name, a non-empty description, a file
\* and a category of CATEGORIES.
C14_FormRecordsWellFormed ==
  /\ \A r \in records : WellFormed(r)
  /\ \A o \in InFlight : ops[o].kind = "add" => WellFormed(ops[o].app)

\* An upload was persisted and the form was reset: its fields are empty
\* again while the file input still holds the file.
C14_Witness ==
  /\ records # {}
  /\ last.kind = "add" /\ last.res = "ok"
  /\ form.appName = "" /\ form.description = "" /\ form.file = NoFile
  /\ form.inputFile # NoFile
  /\ ~form.loading

\* The listing queries that are in flight.
LoadsInFlight == {o \in InFlight : ops[o].kind \in {"getAll", "getByCategory"}}

\* C15: in one mounted AppList at most one listing query is in flight at any
\* time: a call of loadApps made while an earlier load has not finished
\* returns without issuing a second query.
C15_OneLoadInFlight == Cardinality(LoadsInFlight) <= 1

\* C16: whenever AppList is not loading and shows no error, the list on
\* display (in a render the browser gets to paint) is the result of a query
\* for the selected category (getAllApps for 'All'); and a query that was
\* started for another category than the one selected when it completes does
\* not put its results into the list.
C16_ListMatchesFilter ==
  /\ [](( /\ TaskMayRun
          /\ ~ui.rendered.loading
          /\ ui.rendered.error = ""
          /\ ui.rendered.appsOf # "none" )
          => ui.rendered.appsOf = ui.rendered.selectedCategory)
  /\ [][\A o \in Slots :
          ( /\ ui.caller[o].who = "load"
            /\ ui'.caller[o].who = "none"
            /\ ui.caller[o].selectedCategory # ui.state.selectedCategory )
            => ui'.state.apps = ui.state.apps /\ ui'.state.appsOf = ui.state.appsOf]_vars

\* An event of the connection c is delivered in this step.
Delivered(c) == \E e \in events : e[2] = c /\ e \notin events'

\* C17, as stated: a blocking or terminated callback of a connection, or the
\* catch of getDB for an open, leaves the cached promise in place when the
\* cache holds a later open.
C17_LateEventKeepsCache ==
  [][/\ \A c \in Promises :
          (Delivered(c) /\ dbPromise \notin {0, c}) => dbPromise' = dbPromise
     /\ \A o \in Slots :
          (OpenFailed(o) /\ ops'[o] # ops[o] /\ dbPromise \notin {0, ops[o].p})
            => dbPromise' = dbPromise]_vars

\* C18: the operation that fails on a rejected open clears the cache; an
\* operation called while the cache is clear makes a new openDB request and
\* awaits it; and an operation is handed a rejected open only while another
\* operation that awaits the same open has not yet run its catch.
C18_FailedOpenNotCached ==
  [][\A o \in Slots :
       /\ (OpenFailed(o) /\ ops'[o] # ops[o]) => dbPromise' = 0
       /\ (Called(o) /\ dbPromise = 0)
            => /\ opens' = opens + 1
               /\ ops'[o].p = opens'
               /\ dbPromise' = opens'
               /\ promise'[opens'] = "pending"
       /\ (Called(o) /\ Rejected(ops'[o].p))
            => \E q \in InFlight :
                 ops[q].pc = "getDB" /\ ops[q].p = ops'[o].p]_vars

\* An operation has failed on the rejected first open and the next operation
\* awaits a second open.
C18_Witness ==
  /\ Rejected(1)
  /\ last.res = "rejected"
  /\ last.error = "VersionError"
  /\ opens = 2
  /\ \E o \in InFlight : ops[o].p = 2

====
